---- MODULE Spec2Model ----
(***************************************************************************)
(* Model of the Relay For Life scraper (src/main.py): the ticket formula,  *)
(* the extraction of one team detail page, the aggregation loop of main    *)
(* and the report it builds.                                               *)
(*                                                                         *)
(* Amounts are Python floats in the source.  Here an amount is an exact    *)
(* decimal, held as an integer number of thousandths of a dollar, so that  *)
(* 49.999 and 1234.50 are represented exactly; float rounding of sums is   *)
(* not modelled.  A text is a sequence of one-character strings.           *)
(***************************************************************************)
EXTENDS Integers, Sequences, FiniteSets, TLC

VARIABLES
    pc,                \* position of main: start, list, loop, write, quit, done, aborted
    acquired,          \* number of webdriver.Chrome(...) calls so far
    released,          \* number of driver.quit() calls so far
    link_count,        \* number of team links the list page showed (-1 before it is loaded)
    teams,             \* the list scrape_team_list returned
    idx,               \* index in teams of the next team the loop of main visits
    participant_data,  \* main's list of participant entries
    team_data,         \* main's dict, in insertion order: sequence of [team_name, members, total, team_gifts]
    visits,            \* what scrape_team_members returned on each iteration so far
    participants_list, \* rows of the Participants sheet
    teams_list,        \* rows of the Teams sheet
    written,           \* RelayForLife.xlsx has been written
    tk_amount,         \* argument of a call of calculate_tickets
    tk_result,         \* its result (-1 before the call returns)
    sc_page,           \* team detail page a call of scrape_team_members loads
    sc_result          \* its result

vars == <<pc, acquired, released, link_count, teams, idx, participant_data, team_data,
          visits, participants_list, teams_list, written,
          tk_amount, tk_result, sc_page, sc_result>>

mainVars == <<acquired, released, link_count, teams, idx, participant_data, team_data,
              visits, participants_list, teams_list, written>>

----------------------------------------------------------------------------
(* Bounds of the model *)

\* most team links on the list page
MaxTeams == 2
\* most member blocks on a team page of SpecScrape
MaxBlocks == 3
\* largest whole-dollar amount handed to calculate_tickets in SpecTickets
MaxDollars == 1100

----------------------------------------------------------------------------
(* Amounts *)

\* d dollars, in thousandths
Dollars(d) == d * 1000

Min(a, b) == IF a <= b THEN a ELSE b

TicketCap == 50

\* calculate_tickets without its cap (mutant)
calculate_tickets_nocap(amount) ==
    IF amount < Dollars(30) THEN 0
    ELSE ((amount - Dollars(30)) \div Dollars(20)) + 1

\* main.py calculate_tickets: \div is floor division, as math.floor of the quotient
calculate_tickets(amount) ==
    IF amount < Dollars(30) THEN 0
    ELSE Min(((amount - Dollars(30)) \div Dollars(20)) + 1, TicketCap)

----------------------------------------------------------------------------
(* Texts: str.strip, str.lower, str.replace(c, ""), float(str) *)

Whitespace == {" ", "\t", "\n"}

UpperChars == <<"A","B","C","D","E","F","G","H","I","J","K","L","M",
                "N","O","P","Q","R","S","T","U","V","W","X","Y","Z">>
LowerChars == <<"a","b","c","d","e","f","g","h","i","j","k","l","m",
                "n","o","p","q","r","s","t","u","v","w","x","y","z">>
DigitChars == <<"0","1","2","3","4","5","6","7","8","9">>

\* str.strip(): drop the leading and the trailing whitespace
strip(s) ==
    LET keep == {i \in 1..Len(s) : s[i] \notin Whitespace}
    IN  IF keep = {} THEN <<>>
        ELSE LET first == CHOOSE i \in keep : \A j \in keep : i <= j
                 last  == CHOOSE i \in keep : \A j \in keep : j <= i
             IN  SubSeq(s, first, last)

lower_char(c) ==
    IF \E i \in 1..Len(UpperChars) : UpperChars[i] = c
    THEN LowerChars[CHOOSE i \in 1..Len(UpperChars) : UpperChars[i] = c]
    ELSE c

\* str.lower()
lower(s) == [i \in 1..Len(s) |-> lower_char(s[i])]

\* str.replace(c, ""): remove every occurrence of the character c
remove_char(s, c) == SelectSeq(s, LAMBDA x : x # c)

is_digit(c) == \E i \in 1..Len(DigitChars) : DigitChars[i] = c
digit_value(c) == (CHOOSE i \in 1..Len(DigitChars) : DigitChars[i] = c) - 1

\* the value of the first n characters of the digit string s
RECURSIVE digits_value(_, _)
digits_value(s, n) ==
    IF n = 0 THEN 0
    ELSE digits_value(s, n - 1) * 10 + digit_value(s[n])

all_digits(s) == \A i \in 1..Len(s) : is_digit(s[i])

\* [ok, value] of a literal given as the digits before and after its point
literal_parts(whole, frac) ==
    IF Len(whole) + Len(frac) > 0 /\ all_digits(whole) /\ all_digits(frac)
    THEN [ok    |-> TRUE,
          value |-> Dollars(digits_value(whole, Len(whole)))
                    + digits_value(frac \o <<"0", "0", "0">>, 3)]
    ELSE [ok |-> FALSE, value |-> 0]

\* the literal body cut at dot, the place of its first "." (Len(body) + 1 if none)
literal_at(body, dot) == literal_parts(SubSeq(body, 1, dot - 1), SubSeq(body, dot + 1, Len(body)))

first_dot(body) ==
    IF \E i \in 1..Len(body) : body[i] = "."
    THEN CHOOSE i \in 1..Len(body) : body[i] = "." /\ \A j \in 1..(i - 1) : body[j] # "."
    ELSE Len(body) + 1

unsigned_literal(body) == literal_at(body, first_dot(body))

signed(neg, parsed) ==
    [ok |-> parsed.ok, value |-> IF neg THEN 0 - parsed.value ELSE parsed.value]

float_literal(t) ==
    IF Len(t) > 0 /\ t[1] \in {"-", "+"}
    THEN signed(t[1] = "-", unsigned_literal(Tail(t)))
    ELSE unsigned_literal(t)

\* float(s) for the decimal literals [sign] digits [. digits], surrounding
\* whitespace ignored: ok is FALSE where Python raises ValueError.  The value is kept to thousandths.  Exponents,
\* underscores, "inf" and "nan" do not occur in the texts of this model.
float_parse(s) == float_literal(strip(s))

----------------------------------------------------------------------------
(* The pages the browser shows *)

Elem(t) == [found |-> TRUE, text |-> t]
\* an element the selector does not find
NoElem == [found |-> FALSE, text |-> <<>>]

\* a div.item of the team page: its name and amount sub-elements
Block(n, r) == [name |-> n, raised |-> r]

\* a team detail page: the two header locations, whether a div.item shows up
\* within the 15 s wait, and the div.item elements in document order
Page(h2, h1, loaded, blocks) == [h2 |-> h2, h1 |-> h1, loaded |-> loaded, blocks |-> blocks]

TeamGiftsName == <<"t","e","a","m"," ","g","i","f","t","s">>
UnknownTeam == <<"U","n","k","n","o","w","n"," ","T","e","a","m">>

----------------------------------------------------------------------------
(* scrape_team_members *)

\* STEP 1: the header chain div.user-info h2, h1#personal_header, "Unknown Team"
detail_team_name(page) ==
    IF page.h2.found THEN strip(page.h2.text)
    ELSE IF page.h1.found THEN strip(page.h1.text)
    ELSE UnknownTeam

value_or_zero(parsed) == IF parsed.ok THEN parsed.value ELSE 0

\* the amount of a block: "$" and "," removed, float() or 0.0 on ValueError
block_amount(raised_text) ==
    value_or_zero(float_parse(remove_char(remove_char(strip(raised_text), "$"), ",")))

\* lines 108-115 with a "team gifts" block added to the gifts so far instead of
\* replacing them (mutant)
record_block_sum(name, amount, team_name, acc) ==
    IF lower(name) = TeamGiftsName
    THEN [acc EXCEPT !.team_gifts = @ + amount]
    ELSE [acc EXCEPT !.members = Append(@,
             [full_name |-> name, amount |-> amount, team |-> team_name])]

\* lines 108-115: the "team gifts" block, or a member record
record_block(name, amount, team_name, acc) ==
    IF lower(name) = TeamGiftsName
    THEN [acc EXCEPT !.team_gifts = amount]
    ELSE [acc EXCEPT !.members = Append(@,
             [full_name |-> name, amount |-> amount, team |-> team_name])]

\* the body of the loop over member_blocks that gives up the block also when
\* its amount does not parse (mutant)
process_block_strict(block, team_name, acc) ==
    IF ~block.name.found \/ ~block.raised.found THEN acc
    ELSE IF ~float_parse(remove_char(remove_char(strip(block.raised.text), "$"), ",")).ok THEN acc
    ELSE record_block(strip(block.name.text), block_amount(block.raised.text), team_name, acc)

\* the body of the loop over member_blocks; a block without its name or its
\* amount element raises in find_element and is skipped by the except clause
process_block(block, team_name, acc) ==
    IF ~block.name.found \/ ~block.raised.found THEN acc
    ELSE record_block(strip(block.name.text), block_amount(block.raised.text), team_name, acc)

RECURSIVE member_loop(_, _, _, _)
member_loop(blocks, i, team_name, acc) ==
    IF i > Len(blocks) THEN acc
    ELSE member_loop(blocks, i + 1, team_name, process_block(blocks[i], team_name, acc))

member_result(team_name, acc, timed_out) ==
    [team_name |-> team_name, members |-> acc.members,
     team_gifts |-> acc.team_gifts, timed_out |-> timed_out]

\* STEP 2 and the loop with the blocks read whether or not the wait timed out (mutant)
scrape_blocks_nowait(page, team_name) ==
    member_result(team_name,
                  member_loop(page.blocks, 1, team_name, [members |-> <<>>, team_gifts |-> 0]),
                  ~page.loaded)

\* STEP 2 and the loop, with the name STEP 1 found: ([], 0.0) when no div.item
\* shows up within the wait
scrape_blocks(page, team_name) ==
    IF ~page.loaded
    THEN [team_name |-> team_name, members |-> <<>>, team_gifts |-> 0, timed_out |-> TRUE]
    ELSE member_result(team_name,
                       member_loop(page.blocks, 1, team_name, [members |-> <<>>, team_gifts |-> 0]),
                       FALSE)

\* scrape_team_members: the name written to team["team_name"], the returned
\* (members, team_gifts) and whether the wait for the blocks timed out
scrape_team_members(page) == scrape_blocks(page, detail_team_name(page))

----------------------------------------------------------------------------
(* The aggregation of main *)

has_team(td, name) == \E k \in 1..Len(td) : td[k].team_name = name
team_index(td, name) == CHOOSE k \in 1..Len(td) : td[k].team_name = name

\* lines 137-140 with the gifts of a repeated team name added up (mutant)
init_entry_sum(td, name, team_gifts) ==
    IF ~has_team(td, name)
    THEN Append(td, [team_name |-> name, members |-> <<>>, total |-> 0, team_gifts |-> team_gifts])
    ELSE [td EXCEPT ![team_index(td, name)].team_gifts = @ + team_gifts]

\* lines 137-140: the entry of a new team name, or team_gifts overwritten
init_entry(td, name, team_gifts) ==
    IF ~has_team(td, name)
    THEN Append(td, [team_name |-> name, members |-> <<>>, total |-> 0, team_gifts |-> team_gifts])
    ELSE [td EXCEPT ![team_index(td, name)].team_gifts = team_gifts]

\* lines 142-149 for the entry of the team: one member after the other
RECURSIVE fold_members(_, _, _)
fold_members(entry, members, i) ==
    IF i > Len(members) THEN entry
    ELSE fold_members([entry EXCEPT !.members = Append(@, members[i].full_name),
                                    !.total = @ + members[i].amount],
                      members, i + 1)

\* line 152 left out (mutant)
add_gifts_skip(entry, team_gifts) == entry

\* line 152: the gifts of this visit added to the total
add_gifts(entry, team_gifts) == [entry EXCEPT !.total = @ + team_gifts]

\* lines 142-152 on the entry of the team
fold_team(td, k, members, team_gifts) ==
    [td EXCEPT ![k] = add_gifts(fold_members(@, members, 1), team_gifts)]

fold_visit(td, name, members, team_gifts) ==
    fold_team(td, team_index(td, name), members, team_gifts)

\* lines 136-152 on team_data
aggregate(td, name, members, team_gifts) ==
    fold_visit(init_entry(td, name, team_gifts), name, members, team_gifts)

\* lines 143-147 on participant_data
participant_entries(members) ==
    [i \in 1..Len(members) |->
        [full_name |-> members[i].full_name, team |-> members[i].team, amount |-> members[i].amount]]

----------------------------------------------------------------------------
(* The report *)

\* sep.join of the first n items
RECURSIVE join(_, _, _)
join(sep, items, n) ==
    IF n = 0 THEN <<>>
    ELSE IF n = 1 THEN items[1]
    ELSE join(sep, items, n - 1) \o sep \o items[n]

CommaSpace == <<",", " ">>

\* lines 157-168
participant_rows(pd) ==
    [i \in 1..Len(pd) |->
        [Full_Name |-> pd[i].full_name, Team |-> pd[i].team, Amount_Raised |-> pd[i].amount,
         Attendance |-> <<>>, Shirt_Size |-> <<>>,
         Raffle_Tickets |-> calculate_tickets(pd[i].amount)]]

\* the team rows with the tickets taken from the total (mutant)
team_rows_total(td) ==
    [i \in 1..Len(td) |->
        [Team_Name |-> td[i].team_name, Members |-> join(CommaSpace, td[i].members, Len(td[i].members)),
         Team_Gifts |-> td[i].team_gifts, Total_Raised |-> td[i].total,
         Raffle_Tickets |-> calculate_tickets(td[i].total), Camera_Collected |-> <<>>]]

\* lines 173-184
team_rows(td) ==
    [i \in 1..Len(td) |->
        [Team_Name |-> td[i].team_name, Members |-> join(CommaSpace, td[i].members, Len(td[i].members)),
         Team_Gifts |-> td[i].team_gifts, Total_Raised |-> td[i].total,
         Raffle_Tickets |-> calculate_tickets(td[i].team_gifts), Camera_Collected |-> <<>>]]

----------------------------------------------------------------------------
(* The texts and pages the model draws its inputs from *)

T_Alice == <<"A","l","i","c","e">>
T_Bob == <<" ","B","o","b"," ">>
T_TeamGifts == <<"T","e","a","m"," ","G","i","f","t","s">>
T_TEAMGIFTS == <<" ","T","E","A","M"," ","G","I","F","T","S","\n">>
T_Alpha == <<"A","l","p","h","a">>
T_Beta == <<" ","B","e","t","a"," ">>
T_45 == <<"$","4","5",".","0","0">>
T_10 == <<"$","1","0",".","0","0">>
T_60 == <<" ","$","6","0",".","0","0"," ">>
T_30 == <<"$","3","0",".","0","0">>
T_1234 == <<"$","1",",","2","3","4",".","5","0">>
T_NA == <<"N","/","A">>

\* the block lists of Spec are the sub-lists of this document
MainDocument ==
    << Block(Elem(T_Alice), Elem(T_45)),
       Block(Elem(T_TEAMGIFTS), Elem(T_30)),
       Block(Elem(T_Bob), Elem(T_10)),
       Block(Elem(T_TeamGifts), Elem(T_60)),
       Block(Elem(T_Alice), NoElem) >>

\* the elements of doc at the positions S, in document order
SubList(doc, S) ==
    [i \in 1..Cardinality(S) |->
        doc[CHOOSE x \in S : Cardinality({y \in S : y < x}) = i - 1]]

MainBlockLists == {SubList(MainDocument, S) : S \in SUBSET (1..Len(MainDocument))}

\* (h2, h1): the names Alpha, Beta, Alpha by the second header, Unknown Team
Headers ==
    { <<Elem(T_Alpha), NoElem>>, <<Elem(T_Beta), Elem(T_Alpha)>>,
      <<NoElem, Elem(T_Alpha)>>, <<NoElem, NoElem>> }

\* a page whose wait succeeded shows at least one block; the blocks of a page
\* whose wait timed out (late) are those that show up after the wait
Pages(headers, lists, late) ==
    {Page(h[1], h[2], TRUE, bl) : h \in headers, bl \in lists \ {<<>>}}
    \cup {Page(h[1], h[2], FALSE, bl) : h \in headers, bl \in late}

MainPages == Pages(Headers, MainBlockLists, {<<>>, MainDocument})

ScrapeNames == {Elem(T_Alice), Elem(T_TeamGifts), Elem(T_TEAMGIFTS), NoElem}
ScrapeAmounts == {Elem(T_45), Elem(T_1234), Elem(T_NA), NoElem}
ScrapeBlocks == {Block(n, r) : n \in ScrapeNames, r \in ScrapeAmounts}

SeqsUpTo(S, n) == UNION {[1..k -> S] : k \in 0..n}

\* the pages of SpecScrape: every list of up to MaxBlocks blocks for a page whose
\* wait succeeds, and the lists of at most one late block for one whose wait times out
ScrapePages ==
    Pages({<<Elem(T_Beta), NoElem>>}, SeqsUpTo(ScrapeBlocks, MaxBlocks), SeqsUpTo(ScrapeBlocks, 1))

TicketInputs ==
    {Dollars(d) + f : d \in (0 - 2)..MaxDollars, f \in {0, 1, 500, 999}}
    \cup {Dollars(10000)}

NoResult == [team_name |-> <<>>, members |-> <<>>, team_gifts |-> 0, timed_out |-> FALSE]
NoPage == Page(NoElem, NoElem, FALSE, <<>>)

----------------------------------------------------------------------------
(* main *)

MainInit ==
    /\ acquired = 0 /\ released = 0 /\ link_count = 0 - 1
    /\ teams = <<>> /\ idx = 1
    /\ participant_data = <<>> /\ team_data = <<>> /\ visits = <<>>
    /\ participants_list = <<>> /\ teams_list = <<>> /\ written = FALSE

Init ==
    /\ pc = "start" /\ MainInit
    /\ tk_amount = 0 /\ tk_result = 0 - 1
    /\ sc_page = NoPage /\ sc_result = NoResult

\* line 127: driver = webdriver.Chrome(...)
StartDriver ==
    /\ pc = "start"
    /\ acquired' = acquired + 1
    /\ pc' = "list"
    /\ UNCHANGED <<released, link_count, teams, idx, participant_data, team_data, visits,
                   participants_list, teams_list, written, tk_amount, tk_result,
                   sc_page, sc_result>>

\* line 129, the wait for the team links succeeds: one entry per link, the
\* cookie banner dismissed or not
ScrapeTeamList ==
    /\ pc = "list"
    /\ \E cookie \in BOOLEAN, n \in 1..MaxTeams :
          /\ link_count' = n
          /\ teams' = [k \in 1..n |-> [team_name |-> <<>>, team_link |-> k]]
    /\ idx' = 1
    /\ pc' = "loop"
    /\ UNCHANGED <<acquired, released, participant_data, team_data, visits,
                   participants_list, teams_list, written, tk_amount, tk_result,
                   sc_page, sc_result>>

\* line 129, no team link shows up within 15 s: WebDriverWait.until raises
\* TimeoutException, which neither scrape_team_list nor main catches
ScrapeTeamListTimeout ==
    /\ pc = "list"
    /\ link_count' = 0
    /\ pc' = "aborted"
    /\ UNCHANGED <<acquired, released, teams, idx, participant_data, team_data, visits,
                   participants_list, teams_list, written, tk_amount, tk_result,
                   sc_page, sc_result>>

\* lines 134-152: one iteration of the loop over teams
VisitTeam ==
    /\ pc = "loop" /\ idx <= Len(teams)
    /\ \E page \in MainPages :
          \E r \in {scrape_team_members(page)} :
              /\ teams' = [teams EXCEPT ![idx].team_name = r.team_name]
              /\ team_data' = aggregate(team_data, r.team_name, r.members, r.team_gifts)
              /\ participant_data' = participant_data \o participant_entries(r.members)
              /\ visits' = Append(visits, r)
    /\ idx' = idx + 1
    /\ UNCHANGED <<pc, acquired, released, link_count, participants_list, teams_list,
                   written, tk_amount, tk_result, sc_page, sc_result>>

\* lines 154-185: the two tables
BuildReport ==
    /\ pc = "loop" /\ idx > Len(teams)
    /\ participants_list' = participant_rows(participant_data)
    /\ teams_list' = team_rows(team_data)
    /\ pc' = "write"
    /\ UNCHANGED <<acquired, released, link_count, teams, idx, participant_data, team_data,
                   visits, written, tk_amount, tk_result, sc_page, sc_result>>

\* lines 187-193
WriteExcel ==
    /\ pc = "write"
    /\ written' = TRUE
    /\ pc' = "quit"
    /\ UNCHANGED <<acquired, released, link_count, teams, idx, participant_data, team_data,
                   visits, participants_list, teams_list, tk_amount, tk_result,
                   sc_page, sc_result>>

\* line 194: driver.quit()
Quit ==
    /\ pc = "quit"
    /\ released' = released + 1
    /\ pc' = "done"
    /\ UNCHANGED <<acquired, link_count, teams, idx, participant_data, team_data,
                   visits, participants_list, teams_list, written, tk_amount, tk_result,
                   sc_page, sc_result>>

Next ==
    \/ StartDriver
    \/ ScrapeTeamList
    \/ ScrapeTeamListTimeout
    \/ VisitTeam
    \/ BuildReport
    \/ WriteExcel
    \/ Quit

Spec == Init /\ [][Next]_vars

----------------------------------------------------------------------------
(* calculate_tickets on its own *)

InitTickets ==
    /\ pc = "tickets_call" /\ MainInit
    /\ tk_amount \in TicketInputs /\ tk_result = 0 - 1
    /\ sc_page = NoPage /\ sc_result = NoResult

CallTickets ==
    /\ pc = "tickets_call"
    /\ tk_result' = calculate_tickets(tk_amount)
    /\ pc' = "tickets_done"
    /\ UNCHANGED <<mainVars, tk_amount, sc_page, sc_result>>

NextTickets == CallTickets

SpecTickets == InitTickets /\ [][NextTickets]_vars

----------------------------------------------------------------------------
(* scrape_team_members on its own *)

InitScrape ==
    /\ pc = "scrape_call" /\ MainInit
    /\ tk_amount = 0 /\ tk_result = 0 - 1
    /\ sc_page \in ScrapePages /\ sc_result = NoResult

CallScrape ==
    /\ pc = "scrape_call"
    /\ sc_result' = scrape_team_members(sc_page)
    /\ pc' = "scrape_done"
    /\ UNCHANGED <<mainVars, tk_amount, tk_result, sc_page>>

NextScrape == CallScrape

SpecScrape == InitScrape /\ [][NextScrape]_vars

----------------------------------------------------------------------------
(* Definitions the claims are stated with *)

\* the loop of main has visited every team
LoopDone == pc \in {"write", "quit", "done"} \/ (pc = "loop" /\ idx > Len(teams))

\* the two tables have been built
ReportBuilt == pc \in {"write", "quit", "done"}

\* the sum of the f[i] with i in I and i <= n
RECURSIVE SumOver(_, _, _)
SumOver(f, I, n) ==
    IF n = 0 THEN 0
    ELSE (IF n \in I THEN f[n] ELSE 0) + SumOver(f, I, n - 1)

\* the sum of the numbers of the sequence q
SumSeq(q) == SumOver(q, 1..Len(q), Len(q))

ParticipantAmounts == [i \in 1..Len(participant_data) |-> participant_data[i].amount]
VisitGifts == [j \in 1..Len(visits) |-> visits[j].team_gifts]
TeamTotals == [k \in 1..Len(team_data) |-> team_data[k].total]
MemberAmounts(members) == [i \in 1..Len(members) |-> members[i].amount]
MemberNames(members) == [i \in 1..Len(members) |-> members[i].full_name]

\* the sum of the amounts of the participants recorded for the team name
TeamMemberSum(name) ==
    SumOver(ParticipantAmounts,
            {i \in 1..Len(participant_data) : participant_data[i].team = name},
            Len(participant_data))

\* the ticket count the specification gives for an amount: 0 under 30 dollars,
\* else the k of 1..50 with 30 + 20(k - 1) <= amount, and amount < 30 + 20k unless k = 50
ExpectedTickets(amount) ==
    IF amount < 30000 THEN 0
    ELSE CHOOSE k \in 1..50 :
            /\ 30000 + 20000 * (k - 1) <= amount
            /\ (k < 50 => amount < 30000 + 20000 * k)

\* the row of the Teams sheet for a team name
TeamRowsOf(name) == {k \in 1..Len(teams_list) : teams_list[k].Team_Name = name}

----------------------------------------------------------------------------
(* C1 *)

\* C1: calculate_tickets(amount) is 0 when amount < 30 and otherwise
\* min(floor((amount - 30) / 20) + 1, 50); 30 gives 1, 49.999 gives 1, 50 gives 2,
\* 1030 and 10000 give 50.
C1_Tickets ==
    pc = "tickets_done" =>
        /\ tk_amount < 30000 => tk_result = 0
        /\ tk_amount >= 30000 =>
              /\ tk_result \in 1..50
              /\ 20000 * (tk_result - 1) <= tk_amount - 30000
              /\ (tk_result < 50 => tk_amount - 30000 < 20000 * tk_result)
        /\ tk_amount = 29999 => tk_result = 0
        /\ tk_amount = 30000 => tk_result = 1
        /\ tk_amount = 49999 => tk_result = 1
        /\ tk_amount = 50000 => tk_result = 2
        /\ tk_amount = 1030000 => tk_result = 50
        /\ tk_amount = 10000000 => tk_result = 50

C1_Witness == pc = "tickets_done" /\ tk_amount = 10000000 /\ tk_result = 50

----------------------------------------------------------------------------
(* C2 *)

\* C2: once the loop of main has visited every team, every entry of team_data has
\* total = (sum of the amounts of the members recorded for its team name) + its
\* team_gifts field, also when two links resolve to the same team name.
C2_TotalIsMembersPlusGifts ==
    LoopDone =>
        \A k \in 1..Len(team_data) :
            team_data[k].total = TeamMemberSum(team_data[k].team_name) + team_data[k].team_gifts

----------------------------------------------------------------------------
(* C3 *)

\* the visits that resolved to a team name and whose wait did not time out
LoadedVisitsOf(name) ==
    {j \in 1..Len(visits) : visits[j].team_name = name /\ ~visits[j].timed_out}

\* the team row of the name shows team_gifts 0.0, total 0.0 and 0 tickets
ZeroTeamRow(name) ==
    /\ TeamRowsOf(name) # {}
    /\ \A k \in TeamRowsOf(name) :
          /\ teams_list[k].Team_Gifts = 0
          /\ teams_list[k].Total_Raised = 0
          /\ teams_list[k].Raffle_Tickets = 0

\* the visit j added no participant row
NoRowsFrom(j) ==
    /\ visits[j].members = <<>>
    /\ Len(participants_list) =
          SumSeq([i \in 1..Len(visits) |-> IF i = j THEN 0 ELSE Len(visits[i].members)])

----------------------------------------------------------------------------
(* C4 *)

\* C4: when the list page shows no team link, scrape_team_list returns an empty
\* list and the run goes on to the report with zero teams instead of aborting.
C4_NoLinksNoAbort ==
    link_count = 0 => pc # "aborted" /\ teams = <<>>

----------------------------------------------------------------------------
(* C5 *)

\* C5: the browser session is acquired once before any page is loaded and, however
\* the run ends, it has been released exactly once.
C5_SessionReleased ==
    /\ acquired <= 1 /\ released <= 1
    /\ pc # "start" => acquired = 1
    /\ pc \in {"done", "aborted"} => released = 1

----------------------------------------------------------------------------
(* C6 *)

\* C6: once every team is visited, the sum of the totals of team_data equals the
\* sum of all participant amounts plus the sum of the team_gifts of every visit.
C6_TotalsAddUp ==
    LoopDone => SumSeq(TeamTotals) = SumSeq(ParticipantAmounts) + SumSeq(VisitGifts)

C6_Witness ==
    /\ LoopDone
    /\ Len(visits) = 2 /\ Len(team_data) = 1
    /\ visits[1].team_gifts > 0 /\ visits[2].team_gifts > 0
    /\ visits[1].team_gifts # visits[2].team_gifts
    /\ Len(participant_data) >= 2

----------------------------------------------------------------------------
(* C7 *)

\* the single visit of the scenario: team Alpha, Alice 45.00, Bob 10.00, Team Gifts 60.00
AlphaScenario ==
    /\ Len(visits) = 1
    /\ visits[1].team_name = <<"A","l","p","h","a">>
    /\ visits[1].team_gifts = 60000
    /\ Len(visits[1].members) = 2
    /\ visits[1].members[1].full_name = <<"A","l","i","c","e">>
    /\ visits[1].members[1].amount = 45000
    /\ visits[1].members[2].full_name = <<"B","o","b">>
    /\ visits[1].members[2].amount = 10000

AlphaReport ==
    /\ Len(participants_list) = 2 /\ Len(teams_list) = 1
    /\ participants_list[1].Amount_Raised = 45000 /\ participants_list[1].Raffle_Tickets = 1
    /\ participants_list[2].Amount_Raised = 10000 /\ participants_list[2].Raffle_Tickets = 0
    /\ teams_list[1].Members = <<"A","l","i","c","e",","," ","B","o","b">>
    /\ teams_list[1].Team_Gifts = 60000
    /\ teams_list[1].Total_Raised = 115000
    /\ teams_list[1].Raffle_Tickets = 2

----------------------------------------------------------------------------
(* C8 *)

\* what a visit of a team name already in team_data does to its entry k
MergedEntry(k, v) ==
    /\ Len(team_data') = Len(team_data)
    /\ team_data'[k].team_gifts = v.team_gifts
    /\ team_data'[k].members = team_data[k].members \o MemberNames(v.members)
    /\ team_data'[k].total =
          team_data[k].total + SumSeq(MemberAmounts(v.members)) + v.team_gifts
    /\ \A n \in 1..Len(team_data) : n # k => team_data'[n] = team_data[n]

\* what a visit of a new team name adds to team_data
NewEntry(v) ==
    /\ team_data' = Append(team_data,
          [team_name  |-> v.team_name,
           members    |-> <<>> \o MemberNames(v.members),
           total      |-> 0 + SumSeq(MemberAmounts(v.members)) + v.team_gifts,
           team_gifts |-> v.team_gifts])

VisitEffect(v) ==
    IF \E k \in 1..Len(team_data) : team_data[k].team_name = v.team_name
    THEN \A k \in 1..Len(team_data) :
            team_data[k].team_name = v.team_name => MergedEntry(k, v)
    ELSE NewEntry(v)

\* C8: a visit that resolves to a team name already in team_data overwrites the
\* entry's team_gifts with this visit's value, appends this visit's members after
\* the recorded ones and adds their amounts and this visit's team_gifts to the
\* total; a visit of a new name makes an entry that starts from no members and
\* total 0, with team_gifts this visit's value.
C8_MergeOnRepeat ==
    [][Len(visits') = Len(visits) + 1 => VisitEffect(visits'[Len(visits')])]_vars

C8_Witness ==
    /\ Len(visits) = 2 /\ Len(team_data) = 1
    /\ visits[1].team_gifts > 0 /\ visits[2].team_gifts > 0
    /\ visits[1].team_gifts # visits[2].team_gifts
    /\ visits[1].members # <<>> /\ visits[2].members # <<>>
    /\ team_data[1].team_gifts = visits[2].team_gifts
    /\ Len(team_data[1].members) = Len(visits[1].members) + Len(visits[2].members)

----------------------------------------------------------------------------
(* C9, C10 *)

\* the amounts the texts of ScrapeAmounts stand for; "N/A" does not parse
ExpectedAmount(text) ==
    IF text = <<"$","4","5",".","0","0">> THEN 45000
    ELSE IF text = <<"$","1",",","2","3","4",".","5","0">> THEN 1234500
    ELSE 0

\* the name, with the whitespace around it dropped, is "team gifts" in any case
IsGiftsName(text) ==
    strip(text) \in { <<"T","e","a","m"," ","G","i","f","t","s">>,
                      <<"T","E","A","M"," ","G","I","F","T","S">>,
                      <<"t","e","a","m"," ","g","i","f","t","s">> }

\* the blocks of the page that have both their name and their amount element
WellFormed == {i \in 1..Len(sc_page.blocks) :
                  sc_page.blocks[i].name.found /\ sc_page.blocks[i].raised.found}
GiftBlocks == {i \in WellFormed : IsGiftsName(sc_page.blocks[i].name.text)}
MemberBlocks == WellFormed \ GiftBlocks

\* the blocks were read: the call has returned and its wait did not time out
BlocksRead == pc = "scrape_done" /\ sc_page.loaded

\* the n-th smallest element of the set of numbers S
Nth(S, n) == CHOOSE x \in S : Cardinality({y \in S : y < x}) = n - 1

\* C9: a block named "team gifts" (trimmed, in any case) makes no member record;
\* the team_gifts returned is the amount of the last such block in document order,
\* and 0.0 when there is none.
C9_TeamGiftsLastWins ==
    BlocksRead =>
        /\ \A m \in 1..Len(sc_result.members) : ~IsGiftsName(sc_result.members[m].full_name)
        /\ Len(sc_result.members) = Cardinality(MemberBlocks)
        /\ GiftBlocks = {} => sc_result.team_gifts = 0
        /\ \A i \in GiftBlocks :
              (\A j \in GiftBlocks : j <= i) =>
                  sc_result.team_gifts = ExpectedAmount(sc_page.blocks[i].raised.text)

C9_Witness ==
    /\ BlocksRead
    /\ Cardinality(GiftBlocks) >= 2
    /\ \E i \in GiftBlocks, j \in GiftBlocks :
          /\ i < j /\ (\A n \in GiftBlocks : n <= j)
          /\ ExpectedAmount(sc_page.blocks[i].raised.text) = 1234500
          /\ ExpectedAmount(sc_page.blocks[j].raised.text) = 45000
    /\ sc_result.team_gifts = 45000

\* C10: a block without its name or its amount element is skipped and every other
\* block is still processed in document order; a block whose amount text does not
\* parse still gives its record, with amount 0.0.
C10_SkipAndContinue ==
    BlocksRead =>
        /\ Len(sc_result.members) = Cardinality(MemberBlocks)
        /\ \A n \in 1..Cardinality(MemberBlocks) :
              /\ sc_result.members[n].full_name = strip(sc_page.blocks[Nth(MemberBlocks, n)].name.text)
              /\ sc_result.members[n].amount =
                    ExpectedAmount(sc_page.blocks[Nth(MemberBlocks, n)].raised.text)
              /\ sc_page.blocks[Nth(MemberBlocks, n)].raised.text = <<"N","/","A">>
                    => sc_result.members[n].amount = 0

C10_Witness ==
    /\ BlocksRead
    /\ Len(sc_page.blocks) = 3
    /\ MemberBlocks = {1, 3}
    /\ 2 \notin WellFormed
    /\ sc_page.blocks[1].raised.text = <<"N","/","A">>
    /\ Len(sc_result.members) = 2
    /\ sc_result.members[1].amount = 0
    /\ sc_result.members[2].amount = 45000

====
